---------------------------- MODULE Spec2Model ----------------------------
(***************************************************************************)
(* A model of asus_touchpad.py: the touchpad event dispatcher               *)
(* (listen_touchpad_events) and the three monitor threads that share the    *)
(* flag numlock under numlock_lock.                                         *)
(*                                                                          *)
(* Time.  The program compares time() with three stored timestamps          *)
(* (top_right_icon_touch_start_time, top_left_icon_touch_start_time,        *)
(* last_event_time) and only ever uses the difference.  The model keeps,    *)
(* for each timestamp, the seconds elapsed since it was taken (Unset for    *)
(* the program's 0), advanced by Tick and capped one above the threshold    *)
(* it is compared with.                                                     *)
(*                                                                          *)
(* Layout.  numpad_layouts/<model>.py is not part of the source file; the   *)
(* layout below is one admissible layout (getattr defaults overridden as    *)
(* a layout file would), small enough to enumerate.                         *)
(***************************************************************************)
EXTENDS Integers, Sequences, FiniteSets, TLC

(***************************************************************************)
(* Layout and device constants                                              *)
(***************************************************************************)
None == "None"
Unset == -1

KEY_NUMLOCK == "KEY_NUMLOCK"
KEY_CALC == "KEY_CALC"

\* numpad_layouts.<model>.keys: two rows, the second one ragged (shorter
\* than the first), holding a literal string and an empty cell.
keys == << <<"KEY_KP7", "KEY_KP8", "KEY_KP9">>, <<"%", None>> >>

\* The event codes of ecodes (isEvent is true of them); "%" is a literal
\* string typed through the Unicode compose sequence.
EventCodes == {"KEY_KP7", "KEY_KP8", "KEY_KP9", KEY_NUMLOCK, KEY_CALC}

GridKeys == {"KEY_KP7", "KEY_KP8", "KEY_KP9", "%"}

minx == 0
maxx == 8
miny == 0
maxy == 8

left_offset == 1
right_offset == 1
top_offset == 1
bottom_offset == 1

minx_numpad == minx + left_offset
maxx_numpad == maxx - right_offset
miny_numpad == miny + top_offset
maxy_numpad == maxy - bottom_offset

top_right_icon_is_on_top_left == FALSE
top_right_icon_width == 2
top_right_icon_height == 2
top_right_icon_activation_time == 1
top_left_icon_width == 2
top_left_icon_height == 2
top_left_icon_activation_time == 1
top_left_icon_brightness_func_disabled == FALSE
top_left_icon_slide_func_activate_numpad == TRUE
top_left_icon_slide_func_deactivate_numpad == TRUE

\* The four slide ratios are 0.05 = SlideRatioNum / SlideRatioDen.
SlideRatioNum == 1
SlideRatioDen == 20

touchpad_physical_buttons_are_inside_numpad == TRUE
sys_numlock_enables_numpad == TRUE
multitouch == FALSE

backlight_levels == <<"0x41", "0x48">>
default_backlight_level == "0x01"

support_for_maximum_abs_mt_slots == IF multitouch THEN 5 ELSE 1
Slots == 0 .. (support_for_maximum_abs_mt_slots - 1)

RECURSIVE MaxLen(_)
MaxLen(rows) ==
    IF rows = <<>> THEN 0
    ELSE LET r == MaxLen(Tail(rows))
         IN IF Len(Head(rows)) > r THEN Len(Head(rows)) ELSE r

col_count == MaxLen(keys)
row_count == Len(keys)

(***************************************************************************)
(* Geometry                                                                 *)
(***************************************************************************)
\* math.floor(a / (w / n)) for integers a, w > 0, n > 0: col_width and
\* row_height are w / n, so the quotient is a * n / w.  The program divides
\* in floating point; for the widths and counts of this layout (6 / 3 and
\* 6 / 2) the quotients are exact.
FloorDiv(a, w, n) == (a * n) \div w

GridColLower(x) ==
    LET q == FloorDiv(x - minx_numpad, maxx_numpad - minx_numpad, col_count)
    IN IF ((x - minx_numpad) * col_count) % (maxx_numpad - minx_numpad) = 0
       THEN q - 1 ELSE q

GridCol(x) == FloorDiv(x - minx_numpad, maxx_numpad - minx_numpad, col_count)

GridRow(y) == FloorDiv(y - miny_numpad, maxy_numpad - miny_numpad, row_count)

\* seq[i] of a Python list: a negative index counts from the end, an index
\* outside the list raises IndexError.
IndexError == "IndexError"

PyIndex(seq, i) ==
    IF i >= 0 /\ i < Len(seq) THEN seq[i + 1]
    ELSE IF i < 0 /\ -i <= Len(seq) THEN seq[Len(seq) + i + 1]
    ELSE IndexError

\* keys[row][col], IndexError when either index is outside its list.
KeyAt(row, col) ==
    LET r == PyIndex(keys, row)
    IN IF r = IndexError THEN IndexError ELSE PyIndex(r, col)

TouchedKeyAtNoSignCheck(x, y) ==
    LET k == KeyAt(GridRow(y), GridCol(x))
    IN IF k = IndexError THEN None ELSE k

\* get_touched_key at slot position (x, y).
TouchedKeyAt(x, y) ==
    IF GridRow(y) < 0 \/ GridCol(x) < 0 THEN None
    ELSE LET k == KeyAt(GridRow(y), GridCol(x))
         IN IF k = IndexError THEN None ELSE k

InNumpadRect(x, y) ==
    ~ (x < minx_numpad \/ x > maxx_numpad \/ y < miny_numpad \/ y > maxy_numpad)

\* The key the contact handler resolves at (x, y): None stands for each of
\* its "continue" exits (outside the rectangle, negative cell, empty cell,
\* IndexError).
ContactKeyAt(x, y) ==
    IF ~ InNumpadRect(x, y) THEN None
    ELSE IF GridRow(y) < 0 \/ GridCol(x) < 0 THEN None
    ELSE LET k == KeyAt(GridRow(y), GridCol(x))
         IN IF k = IndexError THEN None ELSE k

InTopRightIcon(x, y) ==
    IF ~ top_right_icon_is_on_top_left
    THEN x >= maxx - top_right_icon_width /\ y <= top_right_icon_height
    ELSE x <= top_right_icon_width /\ y <= top_right_icon_height

InTopLeftIcon(x, y) ==
    IF ~ (top_left_icon_width > 0) \/ ~ (top_left_icon_height > 0) THEN FALSE
    ELSE x <= top_left_icon_width /\ y <= top_left_icon_height

\* v < maxv - ratio * maxv  and  v > ratio * maxv, with ratio = Num / Den.
BelowSlideLimit(v, maxv) == v * SlideRatioDen < maxv * SlideRatioDen - SlideRatioNum * maxv
AboveSlideLimit(v, maxv) == v * SlideRatioDen > SlideRatioNum * maxv

isEvent(k) == k \in EventCodes


(***************************************************************************)
(* State                                                                    *)
(***************************************************************************)
VARIABLES
    key_repetitions,            \* layout flag, fixed at start
    one_touch_key_rotation,     \* layout flag, fixed at start
    dev_k,                      \* a keyboard with a numlock LED was found
    touchpad_disables_numpad,   \* layout flag, fixed at start
    disable_due_inactivity_time, \* layout value, fixed at start
    numlock,                    \* the numpad is active
    brightness,                 \* index into backlight_levels, or -1
    last_brightness,            \* config[main][last_brightness], None if absent
    abs_mt_slot_value,          \* current slot cursor
    unsupported_abs_mt_slot,
    abs_mt_slot_numpad_key,     \* slot -> assigned key or None
    abs_mt_slot_x_values,
    abs_mt_slot_y_values,
    top_right_icon_touch_elapsed, \* Unset, or seconds since top_right_icon_touch_start_time
    top_left_icon_touch_elapsed,  \* Unset, or seconds since top_left_icon_touch_start_time
    last_event_elapsed,           \* Unset, or seconds since last_event_time
    numlock_lock,               \* "free" or the thread holding it
    pc,                         \* thread -> position
    sys_led,                    \* the host's numlock LED
    touchpad_enabled,           \* xinput "Device Enabled"
    grabbed,                    \* d_t is grabbed
    vdown,                      \* history: event codes currently down on udev
    out,                        \* history: key events the last program step wrote to udev
    synth,                      \* history: the last program step wrote a numlock press+release
    bus,                        \* history: i2c commands the last program step issued
    touching,                   \* environment: the finger is on the pad
    contact_in_icon,            \* history: the current contact's contact-down was taken by an icon
    hold_toggled,               \* history: the current contact's numlock-icon hold has fired
    tapped_key,                 \* history: the key the current contact typed on landing (key_repetitions off)
    inactivity_fired,           \* history: the inactivity monitor deactivated since the last raw event or activation
    lookup,                     \* result of the last geometry lookup (GeoLookup)
    persisted,                  \* history: last_brightness values the last program step wrote to the config file
    sending,                    \* the dispatcher is inside a udev.send_events call
    getting_device_status_failure_count,
    xinput,                     \* environment: what the xinput query does ("ok", "no_property", "error")
    led_at_last_poll,           \* history: the LED as check_system_numlock_vs_local last read it
    composed                    \* a literal string and what get_events_for_unicode_string returned for it

config_vars == <<key_repetitions, one_touch_key_rotation, dev_k,
                touchpad_disables_numpad, disable_due_inactivity_time>>
slot_vars == <<abs_mt_slot_value, unsupported_abs_mt_slot, abs_mt_slot_numpad_key,
               abs_mt_slot_x_values, abs_mt_slot_y_values>>
icon_vars == <<top_right_icon_touch_elapsed, top_left_icon_touch_elapsed>>
env_vars == <<sys_led, touchpad_enabled>>
contact_vars == <<touching, contact_in_icon, hold_toggled, tapped_key>>
query_vars == <<getting_device_status_failure_count, xinput>>

vars == <<key_repetitions, one_touch_key_rotation, dev_k, touchpad_disables_numpad,
          disable_due_inactivity_time, numlock, brightness,
          last_brightness, abs_mt_slot_value, unsupported_abs_mt_slot,
          abs_mt_slot_numpad_key, abs_mt_slot_x_values, abs_mt_slot_y_values,
          top_right_icon_touch_elapsed, top_left_icon_touch_elapsed,
          last_event_elapsed, numlock_lock, pc, sys_led, touchpad_enabled,
          grabbed, vdown, out, synth, bus, touching, contact_in_icon,
          hold_toggled, tapped_key, inactivity_fired, lookup, persisted, sending,
          getting_device_status_failure_count, xinput, led_at_last_poll, composed>>

Dispatcher == "dispatcher"
LedMonitor == "check_system_numlock_status"
TouchpadMonitor == "check_touchpad_status_endless_cycle"
InactivityMonitor == "check_numpad_automatical_disable_due_inactivity"
Monitors == {LedMonitor, TouchpadMonitor, InactivityMonitor}
Threads == {Dispatcher} \cup Monitors

\* The slot the cursor addresses.
Key == abs_mt_slot_numpad_key[abs_mt_slot_value]
X == abs_mt_slot_x_values[abs_mt_slot_value]
Y == abs_mt_slot_y_values[abs_mt_slot_value]

\* No geometry lookup has been recorded.
NoLookup == [done |-> FALSE, col |-> 0, row |-> 0, get_touched_key |-> None, key |-> None]

\* No literal string has been composed.
NoCompose == [done |-> FALSE, string |-> <<>>, events |-> <<>>]

\* Module-level initial values (lines 397-411, 111-112), in every layout
\* flag combination.
InitProgram ==
    /\ key_repetitions \in BOOLEAN
    /\ one_touch_key_rotation \in BOOLEAN
    /\ numlock = FALSE
    /\ brightness = 0
    /\ last_brightness = None
    /\ abs_mt_slot_value = 0
    /\ unsupported_abs_mt_slot = FALSE
    /\ abs_mt_slot_numpad_key = [s \in Slots |-> None]
    /\ abs_mt_slot_x_values = [s \in Slots |-> -1]
    /\ abs_mt_slot_y_values = [s \in Slots |-> -1]
    /\ top_right_icon_touch_elapsed = Unset
    /\ top_left_icon_touch_elapsed = Unset
    /\ last_event_elapsed = Unset
    /\ numlock_lock = "free"
    /\ pc = [t \in Threads |-> "idle"]
    /\ touchpad_enabled = TRUE
    /\ grabbed = FALSE
    /\ vdown = {}
    /\ out = <<>>
    /\ synth = FALSE
    /\ bus = <<>>
    /\ touching = FALSE
    /\ contact_in_icon = FALSE
    /\ hold_toggled = FALSE
    /\ tapped_key = None
    /\ inactivity_fired = FALSE
    /\ lookup = NoLookup
    /\ persisted = <<>>
    /\ sending = FALSE
    /\ getting_device_status_failure_count = 0
    /\ led_at_last_poll = FALSE
    /\ composed = NoCompose

(***************************************************************************)
(* Key emission                                                             *)
(***************************************************************************)
\* '%X' % n: the hexadecimal digits of n, most significant first.
RECURSIVE HexDigits(_)
HexDigits(n) == IF n < 16 THEN <<n>> ELSE HexDigits(n \div 16) \o <<n % 16>>

\* getattr(ecodess, 'KEY_%s' % hex_digit) for the digit of value d.
HexKey(d) ==
    << "KEY_0", "KEY_1", "KEY_2", "KEY_3", "KEY_4", "KEY_5", "KEY_6", "KEY_7",
       "KEY_8", "KEY_9", "KEY_A", "KEY_B", "KEY_C", "KEY_D", "KEY_E", "KEY_F" >>[d + 1]

SYN_REPORT == <<"SYN_REPORT", 0>>

\* MSC_SCAN with the key's code, the key event, SYN_REPORT.
KeyEvent(key, value) == << <<"MSC_SCAN", key>>, <<key, value>>, SYN_REPORT >>

\* get_compose_key_events_for_unicode_string(value).
get_compose_key_events_for_unicode_string(value) ==
    KeyEvent("KEY_LEFTCTRL", value) \o KeyEvent("KEY_LEFTSHIFT", value)
        \o KeyEvent("KEY_U", value)

\* key_events of one character c (its code point): press and unpress of
\* every hex digit.
RECURSIVE DigitEvents(_)
DigitEvents(digits) ==
    IF digits = <<>> THEN <<>>
    ELSE KeyEvent(HexKey(Head(digits)), 1) \o KeyEvent(HexKey(Head(digits)), 0)
             \o DigitEvents(Tail(digits))

\* get_events_for_unicode_string(string), string a sequence of code points:
\* the return of line 475 is inside the for of line 453, so the function
\* returns in the first iteration; with no character it returns None.
get_events_for_unicode_string(string) ==
    IF string = <<>> THEN None
    ELSE get_compose_key_events_for_unicode_string(1)
             \o DigitEvents(HexDigits(string[1]))
             \o get_compose_key_events_for_unicode_string(0)

\* The events pressed_numpad_key writes for the assigned key k: a key-down
\* with its SYN_REPORT, or the compose burst of a literal string.
pressed_numpad_key(k) ==
    IF ~ isEvent(k) THEN << <<"compose", k>> >> ELSE << <<"down", k>> >>

unpressed_numpad_key_silent(k) == <<>>

\* The events unpressed_numpad_key writes for the assigned key k.
unpressed_numpad_key(k) ==
    IF isEvent(k) THEN << <<"up", k>> >> ELSE <<>>

\* replaced_numpad_key: release of the assigned key k, then press of the
\* key now under the finger.
replaced_numpad_key(k, touched_key_now) ==
    unpressed_numpad_key(k) \o pressed_numpad_key(touched_key_now)

\* use_bindings_for_touchpad_left_icon_slide_function's key_events
\* (top_left_icon_slide_func_keys).
top_left_icon_slide_func_keys == << <<"down", KEY_CALC>>, <<"up", KEY_CALC>> >>

\* The set of codes down on the virtual device after it receives evs.
RECURSIVE Deliver(_, _)
Deliver(down, evs) ==
    IF evs = <<>> THEN down
    ELSE LET e == Head(evs)
         IN Deliver(IF e[1] = "down" THEN down \cup {e[2]}
                    ELSE IF e[1] = "up" THEN down \ {e[2]}
                    ELSE down,
                    Tail(evs))

(***************************************************************************)
(* The dispatcher thread: listen_touchpad_events                            *)
(*                                                                          *)
(* A handler works on a record s of what it may change: the cursor slot's   *)
(* key, x and y, the two icon timers, the events written to udev (out),    *)
(* the i2c commands issued (bus) and where the thread continues (pc).       *)
(***************************************************************************)
Cur ==
    [key |-> Key, x |-> X, y |-> Y,
     right |-> top_right_icon_touch_elapsed,
     left |-> top_left_icon_touch_elapsed,
     out |-> <<>>, bus |-> <<>>, pc |-> "idle"]

set_none_to_current_mt_slot(s) == [s EXCEPT !.key = None, !.x = 0, !.y = 0]

is_not_finger_moved_to_another_key_no_icon_pass(s) ==
    IF s.key = None THEN s
    ELSE IF numlock THEN
        LET touched_key_now == TouchedKeyAt(s.x, s.y)
        IN IF touched_key_now # s.key THEN
               IF one_touch_key_rotation /\ touched_key_now # None
               THEN [s EXCEPT !.out = @ \o replaced_numpad_key(s.key, touched_key_now),
                              !.key = touched_key_now]
               ELSE set_none_to_current_mt_slot(
                        [s EXCEPT !.out = @ \o unpressed_numpad_key(s.key)])
           ELSE s
    ELSE s

is_not_finger_moved_to_another_key(s) ==
    IF s.key = None THEN s
    ELSE IF s.key = KEY_CALC THEN s
    ELSE IF s.key = KEY_NUMLOCK THEN s
    ELSE IF numlock THEN
        LET touched_key_now == TouchedKeyAt(s.x, s.y)
        IN IF touched_key_now # s.key THEN
               IF one_touch_key_rotation /\ s.key # None /\ touched_key_now # None
               THEN [s EXCEPT !.out = @ \o replaced_numpad_key(s.key, touched_key_now),
                              !.key = touched_key_now]
               ELSE IF s.key # None
               THEN set_none_to_current_mt_slot(
                        [s EXCEPT !.out = @ \o unpressed_numpad_key(s.key)])
               ELSE IF one_touch_key_rotation /\ touched_key_now # None
               THEN [s EXCEPT !.key = touched_key_now,
                              !.out = @ \o pressed_numpad_key(touched_key_now)]
               ELSE s
           ELSE s
    ELSE s

\* Lines 866-912 of the contact handler: the grid key press or release.
GridContact(value, s) ==
    IF ~ numlock THEN s
    ELSE IF s.key = None /\ value = 0 THEN s
    ELSE LET key == ContactKeyAt(s.x, s.y)
         IN IF key = None THEN s
            ELSE IF value = 1 THEN
                     IF key_repetitions
                     THEN [s EXCEPT !.key = key, !.out = @ \o pressed_numpad_key(key)]
                     ELSE set_none_to_current_mt_slot(
                              [s EXCEPT !.out = @ \o pressed_numpad_key(key)
                                                  \o unpressed_numpad_key(key)])
                 ELSE set_none_to_current_mt_slot(
                          [s EXCEPT !.out = @ \o unpressed_numpad_key(key)])

\* use_bindings_for_touchpad_left_icon_slide_function.
use_bindings_for_touchpad_left_icon_slide_function(s) ==
    [s EXCEPT !.out = @ \o top_left_icon_slide_func_keys,
              !.pc = IF top_left_icon_slide_func_activate_numpad /\ ~ numlock
                     THEN "use_bindings_for_touchpad_left_icon_slide_function"
                     ELSE IF top_left_icon_slide_func_deactivate_numpad /\ numlock
                     THEN "use_bindings_for_touchpad_left_icon_slide_function"
                     ELSE "idle"]

\* Lines 853-912: a BTN_TOOL_* event with the given value.
ContactHandler(value, s) ==
    IF InTopRightIcon(s.x, s.y) THEN
        \* pressed_touchpad_top_right_icon
        IF value = 1 THEN [s EXCEPT !.right = 0, !.key = KEY_NUMLOCK] ELSE s
    ELSE IF InTopLeftIcon(s.x, s.y) THEN
        \* pressed_touchpad_top_left_icon
        IF value = 1 THEN [s EXCEPT !.left = 0, !.key = KEY_CALC]
        ELSE set_none_to_current_mt_slot(s)
    ELSE IF value = 0 /\ s.left # Unset THEN
        \* is_slided_from_top_left_icon past its two early returns
        IF s.key = KEY_CALC /\ AboveSlideLimit(s.x, maxx) /\ AboveSlideLimit(s.y, maxy)
        THEN use_bindings_for_touchpad_left_icon_slide_function(
                 set_none_to_current_mt_slot([s EXCEPT !.left = Unset]))
        ELSE \* it returns False having cleared the slot, so
             \* is_slided_from_top_right_icon finds no KEY_NUMLOCK
             GridContact(value, set_none_to_current_mt_slot([s EXCEPT !.left = Unset]))
    ELSE IF value = 0 /\ s.right # Unset /\ s.key = KEY_NUMLOCK
            /\ BelowSlideLimit(s.x, maxx) /\ BelowSlideLimit(s.y, maxy) THEN
        \* is_slided_from_top_right_icon, use_slide_func_for_top_right_icon
        [s EXCEPT !.right = Unset, !.pc = "use_slide_func_for_top_right_icon"]
    ELSE GridContact(value, s)

\* is_device_enabled's return value: the last character of the 'Device
\* Enabled' line, False when xinput prints no such line, True when the
\* query raises.
is_device_enabled ==
    IF xinput = "error" THEN TRUE
    ELSE IF xinput = "no_property" THEN FALSE
    ELSE touchpad_enabled

\* getting_device_status_failure_count after a call of is_device_enabled:
\* set to 0 on entry (line 921), then raised by one when the query fails.
FailureCountAfterQuery == IF xinput = "ok" THEN 0 ELSE 0 + 1

\* The bound of check_touchpad_status_endless_cycle's while.
FailureLimit == 9

\* What every handler shares: line 787 and the writes of s.
Commit(s) ==
    /\ last_event_elapsed' = 0
    /\ inactivity_fired' = FALSE
    /\ abs_mt_slot_numpad_key' = [abs_mt_slot_numpad_key EXCEPT ![abs_mt_slot_value] = s.key]
    /\ abs_mt_slot_x_values' = [abs_mt_slot_x_values EXCEPT ![abs_mt_slot_value] = s.x]
    /\ abs_mt_slot_y_values' = [abs_mt_slot_y_values EXCEPT ![abs_mt_slot_value] = s.y]
    /\ top_right_icon_touch_elapsed' = s.right
    /\ top_left_icon_touch_elapsed' = s.left
    /\ out' = s.out
    /\ vdown' = Deliver(vdown, s.out)
    /\ synth' = FALSE
    /\ bus' = s.bus
    /\ persisted' = <<>>
    /\ sending' = (s.out # <<>>)
    /\ pc' = [pc EXCEPT ![Dispatcher] = s.pc]

\* An event read while unsupported_abs_mt_slot is set: line 805.
Dropped == [Cur EXCEPT !.pc = "idle"]

\* ABS_MT_SLOT with value v.
EvSlot(v) ==
    /\ pc[Dispatcher] = "idle"
    /\ ~ sending
    /\ IF v < support_for_maximum_abs_mt_slots
       THEN abs_mt_slot_value' = v /\ unsupported_abs_mt_slot' = FALSE
       ELSE abs_mt_slot_value' = abs_mt_slot_value /\ unsupported_abs_mt_slot' = TRUE
    /\ last_event_elapsed' = 0
    /\ inactivity_fired' = FALSE
    /\ out' = <<>>
    /\ synth' = FALSE
    /\ bus' = <<>>
    /\ persisted' = <<>>
    /\ UNCHANGED <<config_vars, numlock, brightness, last_brightness,
                   abs_mt_slot_numpad_key, abs_mt_slot_x_values, abs_mt_slot_y_values,
                   icon_vars, numlock_lock, pc, env_vars, grabbed, vdown,
                   contact_vars, lookup, composed, sending, query_vars, led_at_last_poll>>

\* ABS_MT_POSITION_X with value v.
EvPositionX(v) ==
    /\ pc[Dispatcher] = "idle"
    /\ ~ sending
    /\ Commit(IF unsupported_abs_mt_slot THEN Dropped
              ELSE is_not_finger_moved_to_another_key([Cur EXCEPT !.x = v]))
    /\ UNCHANGED <<config_vars, numlock, brightness, last_brightness, abs_mt_slot_value,
                   unsupported_abs_mt_slot, numlock_lock, env_vars, grabbed,
                   contact_vars, lookup, composed, query_vars, led_at_last_poll>>

\* ABS_MT_POSITION_Y with value v.
EvPositionY(v) ==
    /\ pc[Dispatcher] = "idle"
    /\ ~ sending
    /\ Commit(IF unsupported_abs_mt_slot THEN Dropped
              ELSE is_not_finger_moved_to_another_key([Cur EXCEPT !.y = v]))
    /\ UNCHANGED <<config_vars, numlock, brightness, last_brightness, abs_mt_slot_value,
                   unsupported_abs_mt_slot, numlock_lock, env_vars, grabbed,
                   contact_vars, lookup, composed, query_vars, led_at_last_poll>>

\* BTN_TOOL_FINGER (or DOUBLETAP .. QUINTTAP) with the given value: 1 when
\* the finger lands, 0 when it lifts.
EvContact(value) ==
    /\ pc[Dispatcher] = "idle"
    /\ ~ sending
    /\ touching = (value = 0)
    /\ touching' = (value = 1)
    /\ hold_toggled' = IF value = 1 THEN FALSE ELSE hold_toggled
    /\ contact_in_icon' = (/\ value = 1
                           /\ ~ unsupported_abs_mt_slot
                           /\ (InTopRightIcon(X, Y) \/ InTopLeftIcon(X, Y)))
    /\ LET s == IF unsupported_abs_mt_slot THEN Dropped ELSE ContactHandler(value, Cur)
       IN /\ Commit(s)
          /\ tapped_key' = IF value = 1 /\ s.key = None /\ s.out # <<>>
                           THEN s.out[1][2] ELSE None
    /\ UNCHANGED <<config_vars, numlock, brightness, last_brightness, abs_mt_slot_value,
                   unsupported_abs_mt_slot, numlock_lock, env_vars, grabbed, lookup, composed, query_vars, led_at_last_poll>>

\* Any event the loop reads and acts on no further: ABS_MT_TRACKING_ID
\* (abs_mt_slot is written and never read), BTN_LEFT / BTN_RIGHT /
\* BTN_MIDDLE, ABS_X, ...
EvOther ==
    /\ pc[Dispatcher] = "idle"
    /\ ~ sending
    /\ Commit(Dropped)
    /\ UNCHANGED <<config_vars, numlock, brightness, last_brightness, abs_mt_slot_value,
                   unsupported_abs_mt_slot, numlock_lock, env_vars, grabbed,
                   contact_vars, lookup, composed, query_vars, led_at_last_poll>>

\* takes_top_right_icon_touch_longer_then_set_up_activation_time is true.
TopRightHeldLongEnough(s) ==
    /\ s.right # Unset
    /\ s.key = KEY_NUMLOCK
    /\ s.right > top_right_icon_activation_time

\* takes_top_left_icon_touch_longer_then_set_up_activation_time is true.
TopLeftHeldLongEnough(s) ==
    /\ s.left # Unset
    /\ s.key = KEY_CALC
    /\ s.left > top_left_icon_activation_time

\* MSC_TIMESTAMP: lines 808-831.
EvTimestamp ==
    /\ pc[Dispatcher] = "idle"
    /\ ~ sending
    /\ IF unsupported_abs_mt_slot THEN
           /\ Commit(Dropped)
           /\ UNCHANGED <<hold_toggled, getting_device_status_failure_count>>
       ELSE IF InTopRightIcon(X, Y) /\ TopRightHeldLongEnough(Cur) THEN
           \* the timer is cleared; the toggle is requested when the
           \* touchpad is enabled (or does not rule the numpad)
           LET go == (is_device_enabled /\ touchpad_disables_numpad)
                     \/ ~ touchpad_disables_numpad
           IN /\ Commit([Cur EXCEPT !.right = Unset,
                                    !.pc = IF go THEN "local_numlock_pressed" ELSE "idle"])
              /\ hold_toggled' = (hold_toggled \/ go)
              /\ getting_device_status_failure_count' = FailureCountAfterQuery
       ELSE IF numlock /\ InTopLeftIcon(X, Y) /\ TopLeftHeldLongEnough(Cur) THEN
           \* the timer restarts; increase_brightness is called
           /\ Commit([Cur EXCEPT !.left = 0,
                                 !.pc = IF /\ Len(backlight_levels) > 0
                                           /\ ~ top_left_icon_brightness_func_disabled
                                        THEN "increase_brightness" ELSE "idle"])
           /\ UNCHANGED <<hold_toggled, getting_device_status_failure_count>>
       ELSE
           /\ Commit(Dropped)
           /\ UNCHANGED <<hold_toggled, getting_device_status_failure_count>>
    /\ UNCHANGED <<config_vars, numlock, brightness, last_brightness, abs_mt_slot_value,
                   unsupported_abs_mt_slot, numlock_lock, env_vars, grabbed, touching,
                   contact_in_icon, tapped_key, lookup, composed, xinput, led_at_last_poll>>

NextBrightnessClamped(b) == IF (b + 1) >= Len(backlight_levels) THEN b ELSE b + 1

\* The index increase_brightness moves to.
NextBrightness(b) == IF (b + 1) >= Len(backlight_levels) THEN 0 ELSE b + 1

\* increase_brightness, called at line 829 without the lock: the index
\* moves, the level is written to the config file and sent on the bus.
\* write_ok is whether open() and config.write() return (they are in no
\* try, and neither is the call in the loop: when they raise, the exception
\* ends listen_touchpad_events); call_ok is whether subprocess.call returns
\* (its exception is passed over).
increase_brightness(write_ok, call_ok) ==
    /\ pc[Dispatcher] = "increase_brightness"
    /\ brightness' = NextBrightness(brightness)
    /\ IF write_ok
       THEN /\ last_brightness' = backlight_levels[brightness' + 1]
            /\ persisted' = << backlight_levels[brightness' + 1] >>
            /\ bus' = IF call_ok THEN << backlight_levels[brightness' + 1] >> ELSE <<>>
            /\ pc' = [pc EXCEPT ![Dispatcher] = "idle"]
       ELSE /\ persisted' = <<>>
            /\ bus' = <<>>
            /\ pc' = [pc EXCEPT ![Dispatcher] = "raised"]
            /\ UNCHANGED last_brightness
    /\ out' = <<>>
    /\ synth' = FALSE
    /\ UNCHANGED <<config_vars, numlock, slot_vars, icon_vars, last_event_elapsed,
                   numlock_lock, env_vars, grabbed, vdown, contact_vars,
                   inactivity_fired, lookup, composed, sending, query_vars, led_at_last_poll>>

\* udev.send_events returns to the dispatcher.
SendEventsReturn ==
    /\ sending
    /\ sending' = FALSE
    /\ UNCHANGED <<config_vars, numlock, brightness, last_brightness, slot_vars,
                   icon_vars, last_event_elapsed, numlock_lock, pc, env_vars, grabbed,
                   vdown, out, synth, bus, contact_vars, inactivity_fired, lookup, composed,
                   persisted, query_vars, led_at_last_poll>>

(***************************************************************************)
(* The activation transitions                                               *)
(***************************************************************************)
AcquireUnguarded(t) == numlock_lock' = t

\* numlock_lock.acquire() by thread t.
Acquire(t) == numlock_lock = "free" /\ numlock_lock' = t

\* numlock_lock.release() by thread t.
Release(t) == numlock_lock = t /\ numlock_lock' = "free"

\* get_system_numlock() is truthy: a keyboard was found and its LED is lit.
get_system_numlock == dev_k /\ sys_led

SendNumlockAlways(do) ==
    /\ synth' = TRUE
    /\ sys_led' = ~ sys_led

\* send_numlock_key(1); send_numlock_key(0) when do is true: the host
\* flips its LED.
SendNumlock(do) ==
    /\ synth' = do
    /\ sys_led' = IF do THEN ~ sys_led ELSE sys_led

\* backlight_levels.index(level), -1 for its ValueError.
LevelIndex(level) ==
    IF \E i \in 1 .. Len(backlight_levels) : backlight_levels[i] = level
    THEN (CHOOSE i \in 1 .. Len(backlight_levels) :
              /\ backlight_levels[i] = level
              /\ \A j \in 1 .. (i - 1) : backlight_levels[j] # level) - 1
    ELSE -1

PowerOn == "0x01"
PowerOff == "0x00"

\* activate_numpad; grab_ok is whether d_t.grab() and the i2c calls return.
activate_numpad(grab_ok) ==
    IF grab_ok
    THEN /\ grabbed' = TRUE
         /\ bus' = <<PowerOn>> \o (IF default_backlight_level # "0x01"
                                   THEN <<default_backlight_level>> ELSE <<>>)
         /\ brightness' = LevelIndex(default_backlight_level)
    ELSE /\ bus' = <<>>
         /\ UNCHANGED <<grabbed, brightness>>

\* deactivate_numpad; ungrab_ok is whether d_t.ungrab() and the i2c call return.
deactivate_numpad(ungrab_ok) ==
    IF ungrab_ok
    THEN /\ grabbed' = FALSE
         /\ bus' = <<PowerOff>>
         /\ brightness' = 0
    ELSE /\ bus' = <<>>
         /\ UNCHANGED <<grabbed, brightness>>

\* The second half of a transition of thread t: the device and bus side
\* effects of the flip the thread made on entering.
ApplyTransition(t, ok) ==
    /\ pc[t] \in {"activate_numpad", "deactivate_numpad"}
    /\ IF pc[t] = "activate_numpad" THEN activate_numpad(ok) ELSE deactivate_numpad(ok)
    /\ out' = <<>>
    /\ synth' = FALSE
    /\ persisted' = <<>>

\* The places the dispatcher calls local_numlock_pressed from: the hold of
\* the numlock icon (line 820) and the two slide functions.
ToggleCalls ==
    {"local_numlock_pressed", "use_slide_func_for_top_right_icon",
     "use_bindings_for_touchpad_left_icon_slide_function"}

\* local_numlock_pressed up to the call of activate_numpad / deactivate_numpad.
LocalNumlockEnter ==
    /\ pc[Dispatcher] \in ToggleCalls
    /\ ~ sending
    /\ Acquire(Dispatcher)
    /\ IF ~ numlock
       THEN /\ numlock' = TRUE
            /\ SendNumlock(~ get_system_numlock)
            /\ inactivity_fired' = FALSE
            /\ pc' = [pc EXCEPT ![Dispatcher] = "activate_numpad"]
       ELSE /\ numlock' = FALSE
            /\ SendNumlock(get_system_numlock)
            /\ UNCHANGED inactivity_fired
            /\ pc' = [pc EXCEPT ![Dispatcher] = "deactivate_numpad"]
    /\ out' = <<>>
    /\ bus' = <<>>
    /\ persisted' = <<>>
    /\ UNCHANGED <<config_vars, brightness, last_brightness, slot_vars, icon_vars,
                   last_event_elapsed, touchpad_enabled, grabbed, vdown,
                   contact_vars, lookup, composed, sending, query_vars, led_at_last_poll>>

\* local_numlock_pressed from activate_numpad / deactivate_numpad to the
\* release of the lock.
LocalNumlockFinish(ok) ==
    /\ pc[Dispatcher] \in {"activate_numpad", "deactivate_numpad"}
    /\ ApplyTransition(Dispatcher, ok)
    /\ abs_mt_slot_numpad_key' = [abs_mt_slot_numpad_key EXCEPT ![abs_mt_slot_value] = None]
    /\ abs_mt_slot_x_values' = [abs_mt_slot_x_values EXCEPT ![abs_mt_slot_value] = 0]
    /\ abs_mt_slot_y_values' = [abs_mt_slot_y_values EXCEPT ![abs_mt_slot_value] = 0]
    /\ Release(Dispatcher)
    /\ pc' = [pc EXCEPT ![Dispatcher] = "idle"]
    /\ UNCHANGED <<config_vars, numlock, last_brightness, abs_mt_slot_value,
                   unsupported_abs_mt_slot, icon_vars, last_event_elapsed, env_vars,
                   vdown, contact_vars, inactivity_fired, lookup, composed, sending, query_vars, led_at_last_poll>>

(***************************************************************************)
(* The monitor threads                                                      *)
(***************************************************************************)
\* check_system_numlock_vs_local up to deactivate_numpad / activate_numpad.
\* A pass that finds nothing to do takes and releases the lock and changes
\* nothing.
LedMonitorEnter ==
    /\ dev_k
    /\ pc[LedMonitor] = "idle"
    /\ \/ /\ ~ get_system_numlock /\ numlock
          /\ Acquire(LedMonitor)
          /\ numlock' = FALSE
          /\ pc' = [pc EXCEPT ![LedMonitor] = "deactivate_numpad"]
          /\ UNCHANGED inactivity_fired
       \/ /\ get_system_numlock /\ sys_numlock_enables_numpad /\ ~ numlock
          /\ Acquire(LedMonitor)
          /\ numlock' = TRUE
          /\ pc' = [pc EXCEPT ![LedMonitor] = "activate_numpad"]
          /\ inactivity_fired' = FALSE
    /\ led_at_last_poll' = get_system_numlock
    /\ synth' = FALSE
    /\ UNCHANGED sys_led
    /\ out' = <<>>
    /\ bus' = <<>>
    /\ persisted' = <<>>
    /\ UNCHANGED <<config_vars, brightness, last_brightness, slot_vars, icon_vars,
                   last_event_elapsed, touchpad_enabled, grabbed, vdown,
                   contact_vars, lookup, composed, sending, query_vars>>

\* A pass of check_system_numlock_vs_local that finds nothing to do: the
\* lock is taken, the LED read, the lock released.
LedMonitorPoll ==
    /\ dev_k
    /\ pc[LedMonitor] = "idle"
    /\ numlock_lock = "free"
    /\ ~ (~ get_system_numlock /\ numlock)
    /\ ~ (get_system_numlock /\ sys_numlock_enables_numpad /\ ~ numlock)
    /\ led_at_last_poll' = get_system_numlock
    /\ out' = <<>>
    /\ synth' = FALSE
    /\ bus' = <<>>
    /\ persisted' = <<>>
    /\ UNCHANGED <<config_vars, numlock, brightness, last_brightness, slot_vars,
                   icon_vars, last_event_elapsed, numlock_lock, pc, env_vars, grabbed,
                   vdown, contact_vars, inactivity_fired, lookup, composed, sending, query_vars>>

\* check_touchpad_status up to deactivate_numpad.
TouchpadMonitorEnter ==
    /\ touchpad_disables_numpad
    /\ pc[TouchpadMonitor] = "idle"
    /\ ~ is_device_enabled /\ touchpad_disables_numpad /\ numlock
    /\ Acquire(TouchpadMonitor)
    /\ getting_device_status_failure_count' = FailureCountAfterQuery
    /\ numlock' = FALSE
    /\ synth' = FALSE
    /\ UNCHANGED sys_led
    /\ out' = <<>>
    /\ bus' = <<>>
    /\ persisted' = <<>>
    /\ pc' = [pc EXCEPT ![TouchpadMonitor] = "deactivate_numpad"]
    /\ UNCHANGED <<config_vars, brightness, last_brightness, slot_vars, icon_vars,
                   last_event_elapsed, touchpad_enabled, grabbed, vdown,
                   contact_vars, inactivity_fired, lookup, composed, sending, xinput,
                   led_at_last_poll>>

\* Where check_touchpad_status_endless_cycle stands after a pass and its
\* while test with the counter at count.
AfterTouchpadPass(count) == IF count < FailureLimit THEN "idle" ELSE "stopped"

\* A pass of check_touchpad_status that finds nothing to do, and the while
\* test that follows it.
TouchpadMonitorPoll ==
    /\ touchpad_disables_numpad
    /\ pc[TouchpadMonitor] = "idle"
    /\ numlock_lock = "free"
    /\ ~ (~ is_device_enabled /\ touchpad_disables_numpad /\ numlock)
    /\ getting_device_status_failure_count' = FailureCountAfterQuery
    /\ pc' = [pc EXCEPT ![TouchpadMonitor] = AfterTouchpadPass(FailureCountAfterQuery)]
    /\ out' = <<>>
    /\ synth' = FALSE
    /\ bus' = <<>>
    /\ persisted' = <<>>
    /\ UNCHANGED <<config_vars, numlock, brightness, last_brightness, slot_vars,
                   icon_vars, last_event_elapsed, numlock_lock, env_vars, grabbed,
                   vdown, contact_vars, inactivity_fired, lookup, composed, sending, xinput,
                   led_at_last_poll>>

InactivityDueIgnoringNumlock ==
    /\ last_event_elapsed # Unset
    /\ last_event_elapsed > disable_due_inactivity_time

\* The condition of check_numpad_automatical_disable_due_inactivity's if.
InactivityDue ==
    /\ numlock
    /\ last_event_elapsed # Unset
    /\ last_event_elapsed > disable_due_inactivity_time

\* check_numpad_automatical_disable_due_inactivity: the if, read without
\* the lock.
InactivityCheck ==
    /\ disable_due_inactivity_time > 0
    /\ pc[InactivityMonitor] = "idle"
    /\ InactivityDue
    /\ pc' = [pc EXCEPT ![InactivityMonitor] = "acquire"]
    /\ out' = <<>>
    /\ synth' = FALSE
    /\ bus' = <<>>
    /\ persisted' = <<>>
    /\ UNCHANGED <<config_vars, numlock, brightness, last_brightness, slot_vars,
                   icon_vars, last_event_elapsed, numlock_lock, env_vars, grabbed,
                   vdown, contact_vars, inactivity_fired, lookup, composed, sending, query_vars, led_at_last_poll>>

\* ... from numlock_lock.acquire() up to deactivate_numpad.
InactivityEnter ==
    /\ pc[InactivityMonitor] = "acquire"
    /\ Acquire(InactivityMonitor)
    /\ SendNumlock(get_system_numlock)
    /\ numlock' = FALSE
    /\ inactivity_fired' = TRUE
    /\ out' = <<>>
    /\ bus' = <<>>
    /\ persisted' = <<>>
    /\ pc' = [pc EXCEPT ![InactivityMonitor] = "deactivate_numpad"]
    /\ UNCHANGED <<config_vars, brightness, last_brightness, slot_vars, icon_vars,
                   last_event_elapsed, touchpad_enabled, grabbed, vdown,
                   contact_vars, lookup, composed, sending, query_vars, led_at_last_poll>>

\* A monitor's deactivate_numpad / activate_numpad and the release of the lock.
MonitorFinish(t, ok) ==
    /\ t \in Monitors
    /\ ApplyTransition(t, ok)
    /\ Release(t)
    /\ pc' = [pc EXCEPT ![t] = IF t = TouchpadMonitor
                                THEN AfterTouchpadPass(getting_device_status_failure_count)
                                ELSE "idle"]
    /\ UNCHANGED <<config_vars, numlock, last_brightness, slot_vars, icon_vars,
                   last_event_elapsed, env_vars, vdown, contact_vars,
                   inactivity_fired, lookup, composed, sending, query_vars, led_at_last_poll>>

\* get_system_numlock raises in thread t's critical section (dev_k.leds()
\* on a keyboard that has gone away): lines 598, 578 and 981 are in no try,
\* so the thread ends where it stands, after numlock_lock.acquire() and
\* before anything else.
LedQueryRaises(t) ==
    /\ dev_k
    /\ \/ t = Dispatcher /\ pc[t] \in ToggleCalls /\ ~ sending
       \/ t = LedMonitor /\ pc[t] = "idle"
       \/ t = InactivityMonitor /\ pc[t] = "acquire"
    /\ Acquire(t)
    /\ pc' = [pc EXCEPT ![t] = "raised"]
    /\ out' = <<>>
    /\ synth' = FALSE
    /\ bus' = <<>>
    /\ persisted' = <<>>
    /\ UNCHANGED <<config_vars, numlock, brightness, last_brightness, slot_vars,
                   icon_vars, last_event_elapsed, env_vars, grabbed, vdown,
                   contact_vars, inactivity_fired, lookup, composed, sending, query_vars,
                   led_at_last_poll>>

(***************************************************************************)
(* The environment                                                          *)
(***************************************************************************)
\* The user presses NumLock on the keyboard.
EnvNumlockKey ==
    /\ sys_led' = ~ sys_led
    /\ UNCHANGED <<config_vars, numlock, brightness, last_brightness, slot_vars,
                   icon_vars, last_event_elapsed, numlock_lock, pc, touchpad_enabled,
                   grabbed, vdown, out, synth, bus, contact_vars, inactivity_fired,
                   lookup, composed, persisted, sending, query_vars,
                   led_at_last_poll>>

\* The touchpad is disabled or enabled (xinput, a desktop hotkey).
EnvTouchpadSwitch ==
    /\ touchpad_enabled' = ~ touchpad_enabled
    /\ UNCHANGED <<config_vars, numlock, brightness, last_brightness, slot_vars,
                   icon_vars, last_event_elapsed, numlock_lock, pc, sys_led,
                   grabbed, vdown, out, synth, bus, contact_vars, inactivity_fired,
                   lookup, composed, persisted, sending, query_vars,
                   led_at_last_poll>>

Elapse(e, cap) == IF e = Unset THEN Unset ELSE IF e < cap THEN e + 1 ELSE e

\* last_event_time is read by the inactivity thread alone, which is started
\* when disable_due_inactivity_time > 0 (line 1007); without it the age of
\* the last event is not followed.
LastEventCap ==
    IF disable_due_inactivity_time > 0 THEN disable_due_inactivity_time + 1 ELSE 0

\* One second passes.
Tick ==
    /\ top_right_icon_touch_elapsed' =
           Elapse(top_right_icon_touch_elapsed, top_right_icon_activation_time + 1)
    /\ top_left_icon_touch_elapsed' =
           Elapse(top_left_icon_touch_elapsed, top_left_icon_activation_time + 1)
    /\ last_event_elapsed' = Elapse(last_event_elapsed, LastEventCap)
    /\ UNCHANGED <<config_vars, numlock, brightness, last_brightness, slot_vars,
                   numlock_lock, pc, env_vars, grabbed, vdown, out, synth, bus,
                   contact_vars, inactivity_fired, lookup, composed, persisted, sending, query_vars,
                   led_at_last_poll>>

(***************************************************************************)
(* Specifications                                                           *)
(***************************************************************************)
\* d_t.grab(), d_t.ungrab(), the i2c calls and the config file write return
\* normally.
Nominal == {TRUE}

\* The events of one finger whose positions lie in XS x YS.
TouchEvents(XS, YS) ==
    \/ \E v \in XS : EvPositionX(v)
    \/ \E v \in YS : EvPositionY(v)
    \/ \E value \in {0, 1} : EvContact(value)
    \/ EvTimestamp
    \/ EvOther

\* What the dispatcher does between two reads of the device.
DispatcherNext ==
    \/ SendEventsReturn
    \/ \E write_ok \in Nominal, call_ok \in Nominal : increase_brightness(write_ok, call_ok)

LocalNumlockPressed ==
    \/ LocalNumlockEnter
    \/ \E ok \in Nominal : LocalNumlockFinish(ok)

MonitorNext ==
    \/ LedMonitorEnter
    \/ TouchpadMonitorEnter
    \/ InactivityCheck
    \/ InactivityEnter
    \/ \E t \in Monitors, ok \in Nominal : MonitorFinish(t, ok)

EnvNext ==
    \/ EnvNumlockKey
    \/ EnvTouchpadSwitch
    \/ Tick

\* SpecKeys: the layout that starts no monitor thread (no keyboard LED,
\* touchpad_disables_numpad False, disable_due_inactivity_time 0; lines
\* 993-1010), every flag combination of the key logic, one finger.
KeysX == {2, 3, 6}
KeysY == {2, 3, 5}

InitKeys ==
    /\ InitProgram
    /\ dev_k = FALSE
    /\ touchpad_disables_numpad = FALSE
    /\ disable_due_inactivity_time = 0
    /\ sys_led = FALSE
    /\ xinput = "ok"

NextKeys == TouchEvents(KeysX, KeysY) \/ DispatcherNext \/ LocalNumlockPressed \/ Tick

SpecKeys == InitKeys /\ [][NextKeys]_vars

\* Spec: the dispatcher and the three monitor threads.
TouchX == {6}
TouchY == {2, 3}

Init ==
    /\ InitProgram
    /\ key_repetitions = TRUE
    /\ one_touch_key_rotation = FALSE
    /\ dev_k = TRUE
    /\ touchpad_disables_numpad = TRUE
    /\ disable_due_inactivity_time = 2
    /\ sys_led \in BOOLEAN
    /\ xinput = "ok"

Next ==
    \/ TouchEvents(TouchX, TouchY) \/ DispatcherNext \/ LocalNumlockPressed
    \/ MonitorNext \/ EnvNext

Spec == Init /\ [][Next]_vars

\* SpecMonitors: the three monitor threads with their passes that find
\* nothing to do, in each behaviour of the xinput query, beside a dispatcher
\* that reads events it does not act on.  The threads are scheduled again
\* and again (each loops with a sleep), a thread waiting for numlock_lock
\* gets it when it is free again and again, and time passes.
XinputBehaviours == {"ok", "no_property", "error"}

InitMonitors ==
    /\ InitProgram
    /\ key_repetitions = TRUE
    /\ one_touch_key_rotation = FALSE
    /\ dev_k = TRUE
    /\ touchpad_disables_numpad = TRUE
    /\ disable_due_inactivity_time = 2
    /\ sys_led \in BOOLEAN
    /\ xinput \in XinputBehaviours

NextMonitors ==
    \/ EvOther
    \/ MonitorNext
    \/ LedMonitorPoll
    \/ TouchpadMonitorPoll
    \/ EnvNext

FairMonitors ==
    /\ SF_vars(LedMonitorEnter)
    /\ SF_vars(LedMonitorPoll)
    /\ SF_vars(TouchpadMonitorEnter)
    /\ SF_vars(TouchpadMonitorPoll)
    /\ WF_vars(InactivityCheck)
    /\ SF_vars(InactivityEnter)
    /\ \A t \in Monitors : WF_vars(\E ok \in Nominal : MonitorFinish(t, ok))
    /\ WF_vars(Tick)

SpecMonitors == InitMonitors /\ [][NextMonitors]_vars /\ FairMonitors

\* SpecFaults: the dispatcher alone, on the two icons and one grid key, with
\* the config file write and the bus call of increase_brightness failing or
\* not.
Faulty == BOOLEAN

FaultsX == {2, 6}
FaultsY == {2, 3}

NextFaults ==
    \/ TouchEvents(FaultsX, FaultsY)
    \/ SendEventsReturn
    \/ \E write_ok \in Faulty, call_ok \in Faulty : increase_brightness(write_ok, call_ok)
    \/ LocalNumlockPressed
    \/ Tick

SpecFaults == InitKeys /\ [][NextFaults]_vars

\* SpecDeviceFaults: the monitor threads of SpecMonitors with the device
\* calls of their critical sections failing or not: d_t.grab() / d_t.ungrab()
\* and the LED query.
NextDeviceFaults ==
    \/ EvOther
    \/ LedMonitorEnter
    \/ LedMonitorPoll
    \/ TouchpadMonitorEnter
    \/ TouchpadMonitorPoll
    \/ InactivityCheck
    \/ InactivityEnter
    \/ \E t \in Monitors, ok \in Faulty : MonitorFinish(t, ok)
    \/ \E t \in {LedMonitor, InactivityMonitor} : LedQueryRaises(t)
    \/ EnvNext

SpecDeviceFaults == InitMonitors /\ [][NextDeviceFaults]_vars

\* SpecCompose: get_events_for_unicode_string as a pure function of the
\* literal string, over every string of 1 .. MaxStringLen characters of
\* ComposeChars ('%', 'A', the euro sign, an emoji beyond the BMP).
MaxStringLen == 3
ComposeChars == {37, 65, 8364, 128512}
ComposeStrings == UNION {[1 .. n -> ComposeChars] : n \in 1 .. MaxStringLen}

\* Lines 483-484 of pressed_numpad_key for the string at hand.
ComposeString ==
    /\ ~ composed.done
    /\ composed' = [composed EXCEPT !.done = TRUE,
                                    !.events = get_events_for_unicode_string(composed.string)]
    /\ UNCHANGED <<config_vars, numlock, brightness, last_brightness, slot_vars,
                   icon_vars, last_event_elapsed, numlock_lock, pc, env_vars,
                   grabbed, vdown, out, synth, bus, contact_vars, inactivity_fired,
                   lookup, persisted, sending, query_vars, led_at_last_poll>>

InitCompose ==
    /\ key_repetitions = FALSE
    /\ one_touch_key_rotation = FALSE
    /\ dev_k = FALSE
    /\ touchpad_disables_numpad = FALSE
    /\ disable_due_inactivity_time = 0
    /\ sys_led = FALSE
    /\ xinput = "ok"
    /\ numlock = TRUE
    /\ brightness = 0
    /\ last_brightness = None
    /\ abs_mt_slot_value = 0
    /\ unsupported_abs_mt_slot = FALSE
    /\ abs_mt_slot_numpad_key = [s \in Slots |-> None]
    /\ abs_mt_slot_x_values = [s \in Slots |-> -1]
    /\ abs_mt_slot_y_values = [s \in Slots |-> -1]
    /\ top_right_icon_touch_elapsed = Unset
    /\ top_left_icon_touch_elapsed = Unset
    /\ last_event_elapsed = Unset
    /\ numlock_lock = "free"
    /\ pc = [t \in Threads |-> "idle"]
    /\ touchpad_enabled = TRUE
    /\ grabbed = TRUE
    /\ vdown = {}
    /\ out = <<>>
    /\ synth = FALSE
    /\ bus = <<>>
    /\ touching = FALSE
    /\ contact_in_icon = FALSE
    /\ hold_toggled = FALSE
    /\ tapped_key = None
    /\ inactivity_fired = FALSE
    /\ lookup = NoLookup
    /\ persisted = <<>>
    /\ sending = FALSE
    /\ getting_device_status_failure_count = 0
    /\ led_at_last_poll = FALSE
    /\ composed \in [done : {FALSE}, string : ComposeStrings, events : {<<>>}]

NextCompose == ComposeString

SpecCompose == InitCompose /\ [][NextCompose]_vars

\* SpecGeo: the geometry lookups as pure functions of the slot position,
\* over every position of the pad, one beyond each side of it, and the
\* slot's initial -1.
GeoXs == (minx - 1) .. (maxx + 1)
GeoYs == (miny - 1) .. (maxy + 1)

\* Lines 531-543 and 870-903 at the cursor slot's position.
GeoLookup ==
    /\ ~ lookup.done
    /\ lookup' = [done |-> TRUE, col |-> GridCol(X), row |-> GridRow(Y),
                  get_touched_key |-> TouchedKeyAt(X, Y),
                  key |-> ContactKeyAt(X, Y)]
    /\ UNCHANGED <<config_vars, numlock, brightness, last_brightness, slot_vars,
                   icon_vars, last_event_elapsed, numlock_lock, pc, env_vars,
                   grabbed, vdown, out, synth, bus, contact_vars, inactivity_fired,
                   persisted, sending, query_vars, led_at_last_poll, composed>>

InitGeo ==
    /\ key_repetitions = FALSE
    /\ one_touch_key_rotation = FALSE
    /\ dev_k = FALSE
    /\ touchpad_disables_numpad = FALSE
    /\ disable_due_inactivity_time = 0
    /\ sys_led = FALSE
    /\ xinput = "ok"
    /\ numlock = TRUE
    /\ brightness = 0
    /\ last_brightness = None
    /\ abs_mt_slot_value = 0
    /\ unsupported_abs_mt_slot = FALSE
    /\ abs_mt_slot_numpad_key = [s \in Slots |-> None]
    /\ abs_mt_slot_x_values \in [Slots -> GeoXs]
    /\ abs_mt_slot_y_values \in [Slots -> GeoYs]
    /\ top_right_icon_touch_elapsed = Unset
    /\ top_left_icon_touch_elapsed = Unset
    /\ last_event_elapsed = Unset
    /\ numlock_lock = "free"
    /\ pc = [t \in Threads |-> "idle"]
    /\ touchpad_enabled = TRUE
    /\ grabbed = TRUE
    /\ vdown = {}
    /\ out = <<>>
    /\ synth = FALSE
    /\ bus = <<>>
    /\ touching = FALSE
    /\ contact_in_icon = FALSE
    /\ hold_toggled = FALSE
    /\ tapped_key = None
    /\ inactivity_fired = FALSE
    /\ lookup = NoLookup
    /\ persisted = <<>>
    /\ sending = FALSE
    /\ getting_device_status_failure_count = 0
    /\ led_at_last_poll = FALSE
    /\ composed = NoCompose

NextGeo == GeoLookup

SpecGeo == InitGeo /\ [][NextGeo]_vars

(***************************************************************************)
(* Geometry properties                                                      *)
(***************************************************************************)
\* floor(a / (w / n)) stated by its defining inequality
\* q * (w / n) <= a < (q + 1) * (w / n), multiplied through by n.
FloorOfQuotient(a, w, n) ==
    CHOOSE q \in -(2 * n + 2) .. (2 * n + 2) : q * w <= a * n /\ a * n < (q + 1) * w

\* The grid cell of the usable rectangle that holds (x, y).
CellRow(y) == FloorOfQuotient(y - miny_numpad, maxy_numpad - miny_numpad, row_count)
CellCol(x) == FloorOfQuotient(x - minx_numpad, maxx_numpad - minx_numpad, col_count)

\* The cell (row, col) is configured and holds a key.
CellHoldsKey(row, col) ==
    /\ row \in 0 .. (row_count - 1)
    /\ col \in 0 .. (Len(keys[row + 1]) - 1)
    /\ keys[row + 1][col + 1] # None

\* C7 -- Geometry: for a position inside the usable rectangle (bounds
\* included) both lookups (get_touched_key and the contact handler's) return
\* a key exactly when the cell (floor((y - min_y) / row_height),
\* floor((x - min_x) / col_width)) is configured and non-empty, and then
\* that cell's key; for a position outside the rectangle they return None;
\* no lookup ends in an error, ragged rows included.
C7_Geometry ==
    lookup.done =>
        LET inside == InNumpadRect(X, Y)
            holds == CellHoldsKey(CellRow(Y), CellCol(X))
        IN /\ lookup.get_touched_key # IndexError /\ lookup.key # IndexError
           /\ inside /\ holds =>
                  /\ lookup.get_touched_key = keys[CellRow(Y) + 1][CellCol(X) + 1]
                  /\ lookup.key = keys[CellRow(Y) + 1][CellCol(X) + 1]
           /\ inside /\ ~ holds => lookup.get_touched_key = None /\ lookup.key = None
           /\ ~ inside => lookup.get_touched_key = None /\ lookup.key = None

\* A lookup was made inside the rectangle in the ragged part of the second
\* row, where keys[row][col] raises IndexError.
C7_Witness ==
    /\ lookup.done
    /\ InNumpadRect(X, Y)
    /\ lookup.row = 1
    /\ lookup.col = Len(keys[2])
    /\ lookup.key = None

\* x lies on the edge shared by the columns m - 1 and m.
OnColEdge(x, m) ==
    /\ m \in 1 .. (col_count - 1)
    /\ (x - minx_numpad) * col_count = m * (maxx_numpad - minx_numpad)

\* y lies on the edge shared by the rows m - 1 and m.
OnRowEdge(y, m) ==
    /\ m \in 1 .. (row_count - 1)
    /\ (y - miny_numpad) * row_count = m * (maxy_numpad - miny_numpad)

\* C8 (as stated) -- a position exactly on the edge shared by two grid cells
\* is mapped to the lower-indexed of the two cells.
C8_EdgeLower ==
    lookup.done =>
        /\ \A m \in 1 .. col_count : OnColEdge(X, m) => lookup.col = m - 1
        /\ \A m \in 1 .. row_count : OnRowEdge(Y, m) => lookup.row = m - 1

\* C8 (amended) -- a position exactly on the edge shared by two grid cells
\* is mapped to the higher-indexed of the two cells: x - min_x = m * col_width
\* gives column m, y - min_y = m * row_height gives row m.
C8_EdgeHigher ==
    lookup.done =>
        /\ \A m \in 1 .. col_count : OnColEdge(X, m) => lookup.col = m
        /\ \A m \in 1 .. row_count : OnRowEdge(Y, m) => lookup.row = m

\* A lookup was made on a shared column edge and on the shared row edge.
C8_Witness ==
    /\ lookup.done
    /\ OnColEdge(X, 1)
    /\ OnRowEdge(Y, 1)
    /\ lookup.col = 1
    /\ lookup.row = 1

(***************************************************************************)
(* Key emission properties (SpecKeys)                                       *)
(***************************************************************************)
\* What a press and a release of key k look like on the virtual device: a
\* keycode goes down and up, a literal string is typed as one compose burst
\* and has nothing to release.
KeyDown(k) == IF k \in EventCodes THEN << <<"down", k>> >> ELSE << <<"compose", k>> >>
KeyUp(k) == IF k \in EventCodes THEN << <<"up", k>> >> ELSE <<>>

\* The key of the grid cell that holds (x, y), None when the cell is not
\* configured or empty.
CellKey(x, y) ==
    IF CellHoldsKey(CellRow(y), CellCol(x))
    THEN keys[CellRow(y) + 1][CellCol(x) + 1] ELSE None

\* The step is the landing of a finger (BTN_TOOL_* with value 1).
Landing == ~ touching /\ touching'

\* C1 (as stated) -- while the numpad is active no key is down on the
\* virtual device unless a slot holds it: every key-down has had its key-up
\* by the time the slot's assigned key is None again.
C1_NoStuckKey ==
    numlock => \A k \in vdown : \E s \in Slots : abs_mt_slot_numpad_key[s] = k

\* The step moves the contact from the grid key A it pressed (the key the
\* slot holds or, with key_repetitions off, the key typed on landing) to
\* the cell of a different key B: A is released if it is still down, then B
\* is pressed, and A is not down afterwards.
Rotates(B) ==
    LET A == IF Key \in GridKeys THEN Key ELSE tapped_key
    IN (/\ numlock /\ one_touch_key_rotation /\ touching /\ ~ contact_in_icon
        /\ A \in GridKeys /\ B \notin {None, A})
       => /\ out' = (IF A \in vdown THEN KeyUp(A) ELSE <<>>)
                    \o KeyDown(B) \o (IF key_repetitions THEN <<>> ELSE KeyUp(B))
          /\ A \notin vdown'

\* C5 (as stated) -- with one-touch key rotation and the numpad active, a
\* position event that moves the held contact from grid cell A to the cell
\* of a different key B writes up(A) and then down(B), and A and B are never
\* both down; for either value of key_repetitions.
C5_Rotation ==
    [][/\ \A v \in KeysX : EvPositionX(v) => Rotates(CellKey(v, Y))
       /\ \A v \in KeysY : EvPositionY(v) => Rotates(CellKey(X, v))]_vars

\* C6 -- a contact that landed inside the numlock or the brightness icon
\* makes no later step press a grid key, wherever it moves, until it lifts.
C6_IconExclusive ==
    contact_in_icon =>
        \A i \in 1 .. Len(out) :
            ~ (out[i][1] \in {"down", "compose"} /\ out[i][2] \in GridKeys)

\* With rotation on and the numpad active, a contact that landed in an icon
\* has moved out of both icons onto the cell of a grid key.
C6_Witness ==
    /\ contact_in_icon /\ touching /\ numlock /\ one_touch_key_rotation
    /\ Key \in {KEY_NUMLOCK, KEY_CALC}
    /\ ~ InTopRightIcon(X, Y) /\ ~ InTopLeftIcon(X, Y)
    /\ CellKey(X, Y) \in GridKeys

\* C9 -- with the numpad active, a landing outside both icons and inside the
\* usable rectangle on the cell of key k presses k (key-down, or the compose
\* burst of a literal string) and releases it at once exactly when
\* key_repetitions is off; with key_repetitions on k stays assigned to the
\* slot and down.  A landing outside the usable rectangle writes nothing.
C9_KeyPress ==
    [][(/\ Landing /\ numlock /\ ~ unsupported_abs_mt_slot
        /\ ~ InTopRightIcon(X, Y) /\ ~ InTopLeftIcon(X, Y))
       => IF InNumpadRect(X, Y)
          THEN LET k == CellKey(X, Y)
               IN k # None =>
                      /\ out' = KeyDown(k) \o (IF key_repetitions THEN <<>> ELSE KeyUp(k))
                      /\ key_repetitions => Key' = k /\ (k \in EventCodes => k \in vdown')
                      /\ ~ key_repetitions => Key' = None /\ k \notin vdown'
          ELSE out' = <<>> /\ vdown' = vdown]_vars

\* With key_repetitions off a landing has just written down(7), up(7); with
\* it on a landing has left 9 down and assigned.
C9_Witness ==
    \/ /\ ~ key_repetitions /\ numlock /\ touching
       /\ out = << <<"down", "KEY_KP7">>, <<"up", "KEY_KP7">> >>
    \/ /\ key_repetitions /\ numlock /\ touching
       /\ out = << <<"down", "KEY_KP9">> >> /\ Key = "KEY_KP9"

(***************************************************************************)
(* Activation properties (Spec)                                             *)
(***************************************************************************)
InTransition(t) == pc[t] \in {"activate_numpad", "deactivate_numpad"}

\* Thread t takes the lock and flips numlock in this step.
Enters(t, transition) == pc[t] # transition /\ pc'[t] = transition

\* Thread t runs activate_numpad / deactivate_numpad and releases the lock
\* in this step.
Finishes(t, transition) == pc[t] = transition /\ pc'[t] = "idle"

\* C2 (as stated) -- under every interleaving a deactivation is entered only
\* while the numpad is active and an activation only while it is inactive,
\* and the power commands alternate: power-off is issued only to a powered
\* (grabbed) pad, power-on only to an unpowered one.
C2_Idempotent ==
    [][\A t \in Threads :
          /\ Enters(t, "deactivate_numpad") => numlock
          /\ Enters(t, "activate_numpad") => ~ numlock
          /\ Finishes(t, "deactivate_numpad") /\ bus' = <<PowerOff>> => grabbed
          /\ Finishes(t, "activate_numpad") /\ bus' = <<PowerOn>> => ~ grabbed]_vars

\* C3 -- at most one thread at a time is inside an activation or
\* deactivation transition, and that thread holds numlock_lock.
C3_MutualExclusion ==
    /\ Cardinality({t \in Threads : InTransition(t)}) <= 1
    /\ \A t \in Threads : InTransition(t) => numlock_lock = t

\* The LED monitor is inside an activation while the dispatcher waits to
\* toggle and the inactivity monitor waits for the lock.
C3_Witness ==
    /\ pc[LedMonitor] = "activate_numpad"
    /\ pc[Dispatcher] \in ToggleCalls
    /\ pc[InactivityMonitor] = "acquire"

HoldDue ==
    /\ ~ unsupported_abs_mt_slot
    /\ contact_in_icon /\ touching
    /\ InTopRightIcon(X, Y)
    /\ Key = KEY_NUMLOCK
    /\ top_right_icon_touch_elapsed > top_right_icon_activation_time
    /\ is_device_enabled

\* C10 -- a timestamp event that finds the numlock icon held past its
\* activation time (touchpad enabled) calls local_numlock_pressed, for the
\* first time in this contact; when that call finds the numpad inactive it
\* makes numlock true and writes a numlock press+release exactly when the
\* host LED is off; its activate_numpad then issues power-on exactly once.
C10_Hold ==
    [][/\ EvTimestamp /\ HoldDue =>
              /\ pc'[Dispatcher] = "local_numlock_pressed"
              /\ ~ hold_toggled
              /\ top_right_icon_touch_elapsed' = Unset
       /\ EvTimestamp /\ hold_toggled => pc'[Dispatcher] = "idle"
       /\ pc[Dispatcher] = "local_numlock_pressed" /\ pc'[Dispatcher] # pc[Dispatcher]
          /\ ~ numlock =>
              /\ numlock'
              /\ pc'[Dispatcher] = "activate_numpad"
              /\ synth' = ~ sys_led
              /\ sys_led'
              /\ bus' = <<>>
       /\ Finishes(Dispatcher, "activate_numpad") =>
              /\ bus' = <<PowerOn>>
              /\ grabbed'
              /\ numlock']_vars

\* The hold has just toggled an inactive numpad on with the LED off: the
\* numlock key was written and activate_numpad is about to run.
C10_Witness ==
    /\ pc[Dispatcher] = "activate_numpad"
    /\ hold_toggled /\ touching /\ contact_in_icon
    /\ synth
    /\ numlock

(***************************************************************************)
(* Brightness properties                                                    *)
(***************************************************************************)
\* The dispatcher's step out of increase_brightness that returns to the loop.
BrightnessAdvance == pc[Dispatcher] = "increase_brightness" /\ pc'[Dispatcher] = "idle"

\* C11 -- every brightness advance moves current_brightness_index to
\* (index + 1) mod the number of levels (from -1 with two levels: 0, 1, 0)
\* and makes exactly one write of the persisted value and exactly one bus
\* command, both carrying the level at the new index.
C11_BrightnessCycle ==
    [][BrightnessAdvance =>
          /\ brightness' = (brightness + 1) % Len(backlight_levels)
          /\ persisted' = << backlight_levels[brightness' + 1] >>
          /\ bus' = << backlight_levels[brightness' + 1] >>
          /\ last_brightness' = backlight_levels[brightness' + 1]]_vars

\* The index has been advanced from -1 to 0 and to 1 and is about to wrap:
\* the last advance wrote the last level, another one is pending.
C11_Witness ==
    /\ brightness = Len(backlight_levels) - 1
    /\ last_brightness = backlight_levels[Len(backlight_levels)]
    /\ pc[Dispatcher] = "increase_brightness"

(***************************************************************************)
(* Properties of the monitors and of what they share with the dispatcher   *)
(***************************************************************************)
\* The last program step wrote the key-down (or the compose burst) of a
\* grid key: the branch of line 867, taken on the dispatcher's read of
\* numlock.
GridKeyWritten ==
    \E i \in DOMAIN out : out[i][1] \in {"down", "compose"} /\ out[i][2] \in GridKeys

\* The inactivity monitor's if (line 974) is taken in this step.
InactivityDecides ==
    pc[InactivityMonitor] = "idle" /\ pc'[InactivityMonitor] = "acquire"

\* C12 (as stated) -- no partial transition is observable: while a thread is
\* inside a transition (numlock flipped, activate_numpad / deactivate_numpad
\* not yet returned) the dispatcher writes no grid key and the inactivity
\* monitor does not take its decision to deactivate on the numlock it reads.
C12_NoPartialTransition ==
    [][(\E t \in Threads : InTransition(t)) =>
          /\ ~ GridKeyWritten'
          /\ ~ InactivityDecides]_vars

\* C13 (as stated) -- a brightness advance is exclusive with the transitions:
\* it is not made while a monitor thread is inside an activation or a
\* deactivation, it sends its level command only while the numpad is
\* active (never after a deactivation's power-off), and whenever the numpad
\* is inactive with no transition in progress current_brightness_index is 0.
C13_BrightnessExclusive ==
    [][/\ BrightnessAdvance =>
             /\ \A t \in Monitors : ~ InTransition(t)
             /\ numlock
       /\ (~ numlock /\ \A t \in Threads : ~ InTransition(t)) => brightness = 0
       /\ (~ numlock' /\ \A t \in Threads : ~ InTransition(t)') => brightness' = 0]_vars

\* C14 (as stated) -- the writers of the virtual device never overlap: no
\* numlock press+release is written to it while the dispatcher is inside a
\* udev.send_events call of one of its key event sequences.
C14_WritersDoNotOverlap == sending => ~ synth

\* C15 (as stated) -- after every transition from active to inactive,
\* whichever thread performs it and whether or not its device and bus calls
\* succeeded, every slot's assigned key is None.
C15_DeactivationClearsSlots ==
    [][\A t \in Threads :
          Finishes(t, "deactivate_numpad") =>
              \A s \in Slots : abs_mt_slot_numpad_key'[s] = None]_vars

\* C16 (as stated) -- in every transition, by any thread, a numlock
\* press+release is synthesized in the critical section exactly when the host
\* LED read there disagrees with the new numlock: on a deactivation when the
\* LED is lit, on an activation when it is not; so once the thread has
\* flipped numlock the host LED agrees with it.
C16_LedReconciled ==
    [][\A t \in Threads :
          /\ Enters(t, "deactivate_numpad") =>
                 /\ synth' = get_system_numlock
                 /\ ~ sys_led'
          /\ Enters(t, "activate_numpad") =>
                 /\ synth' = ~ get_system_numlock
                 /\ sys_led']_vars

\* C17 (as stated) -- when every query of the touchpad's enabled state
\* fails, the touchpad monitor's loop stops: its failure counter reaches the
\* bound of its while test.
C17_MonitorStops == (xinput # "ok") => <>(pc[TouchpadMonitor] = "stopped")

\* No raw event has been read for longer than disable_due_inactivity_time:
\* none since the process started, or the last one longer ago than that.
NoEventForTooLong ==
    \/ last_event_elapsed = Unset
    \/ last_event_elapsed > disable_due_inactivity_time

\* C18 (as stated) -- whenever the numpad is active and no raw event has been
\* read for longer than disable_due_inactivity_time, the numpad is
\* eventually deactivated (or a raw event is read), whichever thread
\* activated it and whether or not any raw event has been read since the
\* process started.
C18_InactivityDeactivates ==
    (numlock /\ NoEventForTooLong) ~> (~ numlock \/ ~ NoEventForTooLong)

\* C19 (as stated) -- the LED monitor activates the numpad only on a pass at
\* which the LED has turned on since its previous pass: a pass that finds
\* the LED lit as the previous pass did, and the numpad inactive, does not
\* activate it.
C19_ActivatesOnRisingEdge ==
    [][Enters(LedMonitor, "activate_numpad") => ~ led_at_last_poll]_vars

\* C20 (as stated) -- a failure of the persisted-brightness write or of the
\* backlight bus command during a brightness advance does not escape the
\* dispatcher loop: listen_touchpad_events is never ended by an exception.
C20_FailureContained == pc[Dispatcher] # "raised"

(***************************************************************************)
(* Properties of the failure paths                                          *)
(***************************************************************************)
\* C21 (as stated) -- a failing grab or ungrab does not abort the
\* transition: every activate_numpad sends the power-on command and
\* resolves current_brightness_index, every deactivate_numpad sends the
\* power-off command and sets current_brightness_index to 0.
C21_TransitionCompletes ==
    [][\A t \in Threads :
          /\ Finishes(t, "activate_numpad") =>
                 /\ bus' # <<>> /\ bus'[1] = PowerOn
                 /\ brightness' = LevelIndex(default_backlight_level)
          /\ Finishes(t, "deactivate_numpad") =>
                 /\ bus' = <<PowerOff>>
                 /\ brightness' = 0]_vars

\* C28 (as stated) -- every acquisition of numlock_lock is followed by its
\* release on every path through the critical section: no thread that has
\* left its critical section, by its end or by an exception, holds the lock.
C28_LockReleased ==
    \A t \in Threads : numlock_lock = t => InTransition(t)

(***************************************************************************)
(* Unicode compose properties                                               *)
(***************************************************************************)
IsKeyEvent(ev) == ev[1] \notin {"MSC_SCAN", "SYN_REPORT"}

\* The key events of a written sequence, in order, without the scan codes
\* and the synchronization markers.
KeysOf(evs) == SelectSeq(evs, IsKeyEvent)

\* The down/up pairs of the hex digits of code point c, most significant
\* digit first.
RECURSIVE DigitPairs(_)
DigitPairs(digits) ==
    IF digits = <<>> THEN <<>>
    ELSE << <<HexKey(Head(digits)), 1>>, <<HexKey(Head(digits)), 0>> >>
             \o DigitPairs(Tail(digits))

\* One compose burst for the character c: Ctrl+Shift+U down, the digit
\* pairs, Ctrl+Shift+U up.
BurstKeys(c) ==
    << <<"KEY_LEFTCTRL", 1>>, <<"KEY_LEFTSHIFT", 1>>, <<"KEY_U", 1>> >>
        \o DigitPairs(HexDigits(c))
        \o << <<"KEY_LEFTCTRL", 0>>, <<"KEY_LEFTSHIFT", 0>>, <<"KEY_U", 0>> >>

RECURSIVE BurstsOf(_)
BurstsOf(string) ==
    IF string = <<>> THEN <<>> ELSE BurstKeys(Head(string)) \o BurstsOf(Tail(string))

\* Every key event of the sequence is followed by a synchronization marker.
EveryKeySynced(evs) ==
    \A i \in 1 .. Len(evs) :
        IsKeyEvent(evs[i]) => i < Len(evs) /\ evs[i + 1] = SYN_REPORT

\* C22 (as stated) -- a literal string of n >= 1 characters is written as n
\* compose bursts, one per character in string order, each with the down/up
\* pairs of exactly that character's hex digits, every key event followed
\* by a synchronization marker.
C22_ComposeEveryCharacter ==
    composed.done =>
        /\ KeysOf(composed.events) = BurstsOf(composed.string)
        /\ EveryKeySynced(composed.events)

(***************************************************************************)
(* Contact properties                                                       *)
(***************************************************************************)
\* C23 (as stated) -- an icon's touch start time is set only while a slot
\* still has that icon's pseudo-key assigned: the numlock icon's with
\* KEY_NUMLOCK, the top-left icon's with KEY_CALC.
C23_IconTouchState ==
    /\ top_right_icon_touch_elapsed # Unset =>
           \E s \in Slots : abs_mt_slot_numpad_key[s] = KEY_NUMLOCK
    /\ top_left_icon_touch_elapsed # Unset =>
           \E s \in Slots : abs_mt_slot_numpad_key[s] = KEY_CALC

\* The timestamp handler requests the toggle of the numlock icon's hold
\* (line 820) in this step.
HoldFires == pc[Dispatcher] = "idle" /\ pc'[Dispatcher] = "local_numlock_pressed"

\* C24 (as stated) -- the numlock icon's hold fires only on a timestamp event
\* of a contact that began inside the icon and has not been released: after
\* the contact-up no timestamp event toggles until a new contact-down inside
\* the icon.
C24_HoldDuringLiveContact ==
    [][HoldFires => touching /\ contact_in_icon]_vars

\* C25 (as stated) -- a slot's x and y change only by a position event of
\* that axis, to the value the event reports: key presses, key releases,
\* icon releases and activation toggles leave them as they are, and the
\* value 0 is never written in place of the unset -1.
C25_SlotPositionIntegrity ==
    [][\A s \in Slots :
          /\ abs_mt_slot_x_values'[s] # abs_mt_slot_x_values[s] =>
                 \E v \in KeysX : EvPositionX(v) /\ abs_mt_slot_x_values'[s] = v
          /\ abs_mt_slot_y_values'[s] # abs_mt_slot_y_values[s] =>
                 \E v \in KeysY : EvPositionY(v) /\ abs_mt_slot_y_values'[s] = v]_vars

\* The step is the lift of the finger (BTN_TOOL_* with value 0).
Lift == touching /\ ~ touching'

\* C26 (as stated) -- a contact-up writes a key-up only for a grid key whose
\* key-down was written earlier for the slot and is not yet released; a lift
\* on a slot that holds no grid key (None or an icon's pseudo-key) writes no
\* grid key's key-up.
C26_NoReleaseWithoutPress ==
    [][Lift =>
          \A i \in DOMAIN out' :
              out'[i][1] = "up" /\ out'[i][2] \in GridKeys =>
                  /\ out'[i][2] \in vdown
                  /\ Key = out'[i][2]]_vars


\* C27 (as stated) -- every Inactive -> Active transition resolves
\* brightness to the index of the most recently persisted level
\* (last_brightness; -1 when it is not one of backlight_levels) and sends the
\* restore command for that level after the power-on command.
C27_BrightnessRestored ==
    [][\A t \in Threads :
          Finishes(t, "activate_numpad") /\ last_brightness # None =>
              /\ brightness' = LevelIndex(last_brightness)
              /\ bus' = <<PowerOn, last_brightness>>]_vars

=============================================================================
